---- MODULE Spec2Model ----
(***************************************************************************)
(* BkperAuth (packages/auth/src/bkper-auth.ts): the client-side            *)
(* authentication state machine.  One client object, its configuration,   *)
(* the in-memory access token, the 'already-logged' cookie, and the calls  *)
(* the host makes on it (init, refresh, login, logout).  The asynchronous  *)
(* calls suspend at the network request and at the await; every promise    *)
(* callback that can observe or change the client's state is one action.   *)
(***************************************************************************)
EXTENDS Integers, Sequences, FiniteSets, TLC

(* ------------------------------ bounds -------------------------------- *)

\* The host makes at most this many calls on the client in one behaviour.
MaxCalls == 2

(* --------------------------- JavaScript values ------------------------ *)

\* JavaScript's undefined (an absent token, cookie, option or property).
Absent == "undefined"

\* No error is carried.
NoError == "none"

\* JavaScript truthiness of a string-or-undefined value.
Truthy(v) == v # Absent /\ v # ""

(* ----------------------------- constants ------------------------------ *)

DEFAULT_BASE_URL == "https://bkper.app"
ALREADY_LOGGED_COOKIE == "already-logged"
AUTH_LOGIN_PATH == "/auth/login"
AUTH_REFRESH_PATH == "/auth/refresh"
AUTH_LOGOUT_PATH == "/auth/logout"

(* --------------------------- the environment -------------------------- *)

\* Access tokens the server may mint.
Tokens == {"abc123", "xyz789"}

\* What the body of a 200 response may be: not JSON at all, the JSON value
\* null, or a JSON object whose accessToken property is missing (undefined),
\* empty, or a token.
Bodies ==
    {[json |-> "invalid", accessToken |-> Absent],
     [json |-> "null", accessToken |-> Absent]}
    \cup {[json |-> "object", accessToken |-> t] : t \in Tokens \cup {Absent, ""}}

\* The body of a response whose status is not 200 is never read.
NoBody == [json |-> "invalid", accessToken |-> Absent]

\* What the HTTP transport may deliver for one request: a network failure
\* (fetch rejects) or a response with a status, a status text and a body.
Outcomes ==
    {[net |-> "failed", status |-> 0, statusText |-> "", body |-> NoBody]}
    \cup {[net |-> "ok", status |-> 200, statusText |-> "OK", body |-> b] : b \in Bodies}
    \cup {[net |-> "ok", status |-> 401, statusText |-> "Unauthorized", body |-> NoBody],
          [net |-> "ok", status |-> 500, statusText |-> "Server Error", body |-> NoBody]}

\* No response has been delivered yet.
Pending == [net |-> "pending", status |-> 0, statusText |-> "", body |-> NoBody]

\* The errors of the transport: fetch's rejection, json()'s rejection, and the
\* TypeError of reading a property of null.
NetworkError == "TypeError: Failed to fetch"
ParseError == "SyntaxError: Unexpected token"
NullBodyError == "TypeError: Cannot read properties of null"

\* The exception a host callback throws.
ThrownBy(hook) == "thrown by " \o hook

\* The current page (test/setup.ts mocks self.location with this href).
Href == <<"h","t","t","p",":","/","/","l","o","c","a","l","h","o","s","t",
          ":","3","0","0","0","/","a","p","p">>

\* The mappings getAdditionalAuthParams returns, one after the other and
\* then again from the first: each a list of (key, value) entries in
\* Object.entries order, keys and values being sequences of characters.
ProviderMappings ==
    <<<<[key |-> <<"t","e","n","a","n","t">>, value |-> <<"a","c","m","e">>]>>,
      << >>,
      <<[key |-> <<"a"," ","b">>, value |-> <<"x","&","~">>]>>>>

(* ---------------------------- configuration --------------------------- *)

\* The five notification callbacks of BkperAuthConfig.
Hooks == {"onLoginSuccess", "onLoginRequired", "onLogout", "onTokenRefresh", "onError"}

\* A callback is not configured ("absent"), returns normally or throws.
AllHooks(b) == [h \in Hooks |-> b]

\* The callback configurations explored: all callbacks alike; one callback
\* throwing and the others returning; onError or onTokenRefresh missing and
\* the others returning.
ThrowingProfiles == {[AllHooks("returns") EXCEPT ![h] = "throws"] : h \in Hooks}

MissingProfiles ==
    {[AllHooks("returns") EXCEPT ![h] = "absent"] : h \in {"onError", "onTokenRefresh"}}

Cfg(url, hooks, provider) ==
    [baseUrl |-> url, hooks |-> hooks, getAdditionalAuthParams |-> provider]

\* A page load: the configuration given to the constructor, whether the
\* browser already holds the 'already-logged' cookie, and which mapping the
\* extra-params provider returns first.
Load(cfg, cookie, first) == [config |-> cfg, cookie |-> cookie, provider |-> first]

\* The page loads explored.
Scenarios ==
    {Load(Cfg(Absent, AllHooks("returns"), TRUE), ck, 1) : ck \in {Absent, "true"}}
    \cup {Load(Cfg(Absent, AllHooks("absent"), FALSE), Absent, 1),
          Load(Cfg(Absent, AllHooks("throws"), TRUE), Absent, 2),
          Load(Cfg("", AllHooks("returns"), FALSE), Absent, 1),
          Load(Cfg("https://auth.example", AllHooks("returns"), TRUE), Absent, 3)}
    \cup {Load(Cfg(Absent, p, TRUE), Absent, 3) : p \in ThrowingProfiles}
    \cup {Load(Cfg(Absent, p, TRUE), Absent, 2) : p \in MissingProfiles}

(* ------------------------------- state -------------------------------- *)

VARIABLES
    config,       \* BkperAuthConfig, as given to the constructor
    accessToken,  \* this.accessToken
    cookies,      \* the browser's cookie jar (js-cookie)
    provider,     \* which mapping getAdditionalAuthParams returns next
    calls,        \* the calls made so far, each with its position and history
    fetchCount,   \* how many requests the transport has received
    lastSettled,  \* the call whose refresh handlers ran to completion last (0: none)
    freshSession, \* whether the browser held no 'already-logged' cookie at page load
    twin          \* a second client: same configuration, calls and responses,
                  \* in a browser whose 'already-logged' cookie is the other way

vars == <<config, accessToken, cookies, provider, calls, fetchCount, lastSettled,
          freshSession, twin>>

\* The state of a client object in its browser: its token, its browser's
\* 'already-logged' cookie, and its calls.
Client(token, cookie, itsCalls) ==
    [accessToken |-> token, cookie |-> cookie, calls |-> itsCalls]

\* One observable step of a call: a callback invocation, a fetch, a navigation.
Ev(name, arg, threw) == [ev |-> name, arg |-> arg, threw |-> threw]

CallIds == 1..Len(calls)

\* if (this.config.<hook>)
Configured(hook) == config.hooks[hook] # "absent"

\* this.config.<hook>(arg): the invocation, which throws or returns.
Invoke(hook, arg) == Ev(hook, arg, config.hooks[hook] = "throws")

(* --------------------------- pure helpers ----------------------------- *)

\* constructor: this.baseUrl = config.baseUrl || DEFAULT_BASE_URL
baseUrl == IF Truthy(config.baseUrl) THEN config.baseUrl ELSE DEFAULT_BASE_URL

\* getAccessToken()
getAccessToken == accessToken

\* hasLoggedInBefore(): Cookies.get(ALREADY_LOGGED_COOKIE) != null
hasLoggedInBefore == cookies[ALREADY_LOGGED_COOKIE] # Absent

Alnum ==
    {"a","b","c","d","e","f","g","h","i","j","k","l","m","n","o","p","q","r",
     "s","t","u","v","w","x","y","z","0","1","2","3","4","5","6","7","8","9"}

\* The percent-encoding (UTF-8, upper-case hex) of the other characters of
\* the model's alphabet.
PercentCode(c) ==
    CASE c = " " -> "%20" [] c = "&" -> "%26" [] c = ":" -> "%3A"
      [] c = "/" -> "%2F" [] c = "=" -> "%3D" [] c = "?" -> "%3F"
      [] c = "~" -> "%7E" [] c = "!" -> "%21" [] c = "'" -> "%27"
      [] c = "(" -> "%28" [] c = ")" -> "%29" [] c = "+" -> "%2B"

\* encodeURIComponent: A-Z a-z 0-9 - _ . ! ~ * ' ( ) stay, the rest is
\* percent-encoded.
RECURSIVE encodeURIComponent(_)
encodeURIComponent(s) ==
    IF s = << >> THEN ""
    ELSE (IF Head(s) \in Alnum \cup {"-", "_", ".", "!", "~", "*", "'", "(", ")"}
          THEN Head(s) ELSE PercentCode(Head(s)))
         \o encodeURIComponent(Tail(s))

\* The application/x-www-form-urlencoded serializer of URLSearchParams:
\* A-Z a-z 0-9 * - . _ stay, a space becomes +, the rest is percent-encoded.
RECURSIVE formUrlEncode(_)
formUrlEncode(s) ==
    IF s = << >> THEN ""
    ELSE (IF Head(s) \in Alnum \cup {"*", "-", ".", "_"} THEN Head(s)
          ELSE IF Head(s) = " " THEN "+" ELSE PercentCode(Head(s)))
         \o formUrlEncode(Tail(s))

\* A key as the template literal `${key}` renders it: unchanged.
RECURSIVE raw(_)
raw(s) == IF s = << >> THEN "" ELSE Head(s) \o raw(Tail(s))

\* new URLSearchParams(additionalParams).toString()
RECURSIVE URLSearchParamsToString(_)
URLSearchParamsToString(params) ==
    IF params = << >> THEN ""
    ELSE formUrlEncode(Head(params).key) \o "=" \o formUrlEncode(Head(params).value)
         \o (IF Tail(params) = << >> THEN ""
             ELSE "&" \o URLSearchParamsToString(Tail(params)))

\* The loop of getLoginUrl: loginUrl += `&${key}=${encodeURIComponent(value)}`
RECURSIVE LoginPairs(_)
LoginPairs(params) ==
    IF params = << >> THEN ""
    ELSE "&" \o raw(Head(params).key) \o "=" \o encodeURIComponent(Head(params).value)
         \o LoginPairs(Tail(params))

\* A URL builder that keeps the mapping the provider returned to the first
\* call and uses it for every later one.
AdditionalParamsCached ==
    IF config.getAdditionalAuthParams
    THEN ProviderMappings[
             ((provider - 1 + MaxCalls * Len(ProviderMappings)
                 - Cardinality({d \in 1..Len(calls) : calls[d].kind # "logout"}))
              % Len(ProviderMappings)) + 1]
    ELSE << >>

\* What a URL builder gets from the provider: the mapping it returns now
\* when it is configured (it is called), nothing when it is not.
AdditionalParams ==
    IF config.getAdditionalAuthParams THEN ProviderMappings[provider] ELSE << >>

\* The provider after a URL builder ran: called once if configured.
ProviderAfterCall ==
    IF config.getAdditionalAuthParams THEN (provider % Len(ProviderMappings)) + 1
    ELSE provider

\* The events of a URL builder that consults the provider.
ProviderEvents ==
    IF config.getAdditionalAuthParams
    THEN <<Ev("getAdditionalAuthParams", URLSearchParamsToString(AdditionalParams), FALSE)>>
    ELSE << >>

\* getLoginUrl()
getLoginUrl ==
    baseUrl \o AUTH_LOGIN_PATH \o "?returnUrl=" \o encodeURIComponent(Href)
    \o LoginPairs(AdditionalParams)

\* A refresh URL that sends the token held in memory along.
getRefreshUrlWithToken ==
    baseUrl \o AUTH_REFRESH_PATH
    \o (IF Truthy(accessToken) THEN "?token=" \o accessToken ELSE "")
    \o (IF URLSearchParamsToString(AdditionalParams) # ""
        THEN "&" \o URLSearchParamsToString(AdditionalParams) ELSE "")

\* getRefreshUrl()
getRefreshUrl ==
    baseUrl \o AUTH_REFRESH_PATH
    \o (IF URLSearchParamsToString(AdditionalParams) # ""
        THEN "?" \o URLSearchParamsToString(AdditionalParams) ELSE "")

\* A logout URL built like the refresh URL, with the provider's parameters.
getLogoutUrlWithParams ==
    baseUrl \o AUTH_LOGOUT_PATH
    \o (IF URLSearchParamsToString(AdditionalParams) # ""
        THEN "?" \o URLSearchParamsToString(AdditionalParams) ELSE "")

\* getLogoutUrl()
getLogoutUrl == baseUrl \o AUTH_LOGOUT_PATH

(* -------------------------------- Init -------------------------------- *)

\* The state after new BkperAuth(config): no token, no call made yet.
Init ==
    \E s \in Scenarios :
        /\ config = s.config
        /\ accessToken = Absent
        /\ cookies = [n \in {ALREADY_LOGGED_COOKIE} |-> s.cookie]
        /\ provider = s.provider
        /\ freshSession = (s.cookie = Absent)
        /\ twin = Client(Absent, IF s.cookie = Absent THEN "true" ELSE Absent, << >>)
        /\ calls = << >>
        /\ fetchCount = 0
        /\ lastSettled = 0

(* ------------------------- refresh(): the request ---------------------- *)

\* A new call record: the method called, where the call stands, the response
\* its request got, how its refresh() settled and with which error, what the
\* call itself threw or rejected with, and the events it caused so far.
NewCall(kind, pc, thrown, trace) ==
    [kind |-> kind, pc |-> pc, resp |-> Pending, refreshEnd |-> "pending",
     error |-> NoError, thrown |-> thrown, trace |-> trace]

\* A refresh() that drops the token it holds before it sends the request.
StartRefreshClearingToken(kind) ==
    /\ Len(calls) < MaxCalls
    /\ calls' = Append(calls,
           NewCall(kind, "fetching", NoError,
               ProviderEvents \o <<Ev("fetch", getRefreshUrl, FALSE)>>))
    /\ twin' = [twin EXCEPT !.accessToken = Absent, !.calls = Append(@,
           NewCall(kind, "fetching", NoError,
               ProviderEvents \o <<Ev("fetch", getRefreshUrl, FALSE)>>))]
    /\ provider' = ProviderAfterCall
    /\ fetchCount' = fetchCount + 1
    /\ accessToken' = Absent
    /\ UNCHANGED <<config, cookies, lastSettled, freshSession>>

\* The synchronous part of refresh(): build the URL and POST it.  init()
\* starts with the same steps (await this.refresh()).
StartRefresh(kind) ==
    /\ Len(calls) < MaxCalls
    /\ calls' = Append(calls,
           NewCall(kind, "fetching", NoError,
               ProviderEvents \o <<Ev("fetch", getRefreshUrl, FALSE)>>))
    /\ twin' = [twin EXCEPT !.calls = Append(@,
           NewCall(kind, "fetching", NoError,
               ProviderEvents \o <<Ev("fetch", getRefreshUrl, FALSE)>>))]
    /\ provider' = ProviderAfterCall
    /\ fetchCount' = fetchCount + 1
    /\ UNCHANGED <<config, accessToken, cookies, lastSettled, freshSession>>

\* The host calls refresh().
refresh == StartRefresh("refresh")

\* The host calls init().
init == StartRefresh("init")

(* ------------------------ refresh(): the handlers ---------------------- *)

\* this.accessToken = data.accessToken
StoredToken(data) == data.accessToken

\* A refresh that forgets to set the cookie.
CookieLeftAlone(cookie) == cookie

\* Cookies.set(ALREADY_LOGGED_COOKIE, 'true')
CookieAfterRefresh(cookie) == "true"

\* A notification that does not look at the token it got.
NotifiesAnyToken(token) == Configured("onTokenRefresh")

\* if (this.config.onTokenRefresh && this.accessToken)
NotifiesTokenRefresh(token) == Configured("onTokenRefresh") /\ Truthy(token)

\* A 401 branch that leaves the token in place.
UnauthorizedTokenKept(token) == token

\* status === 401: this.accessToken = undefined
UnauthorizedToken(token) == Absent

\* A .catch handler that leaves the token in place.
CatchTokenKept(token) == token

\* .catch: this.accessToken = undefined
CatchToken(token) == Absent

\* Handlers without the 401 branch: a 401 is rejected like any other status.
BranchWithout401(resp) ==
    IF resp.net = "failed" THEN "catch"
    ELSE IF resp.status = 200 THEN "ok"
    ELSE "reject"

\* The branch the handlers take on what the transport delivered.
Branch(resp) ==
    IF resp.net = "failed" THEN "catch"
    ELSE IF resp.status = 200 THEN "ok"
    ELSE IF resp.status = 401 THEN "unauthorized"
    ELSE "reject"

\* What a handler did: the token and cookie it leaves, the events it added,
\* how it ended ("resolved", "rejected", or "throwing": it has thrown and the
\* .catch handler has not run yet) and the error it carries.
Res(token, cookie, events, how, error) ==
    [accessToken |-> token, cookie |-> cookie, events |-> events, how |-> how,
     error |-> error]

\* An inner handler that takes a body without a usable accessToken for a
\* failure: it writes nothing and rejects.
OnBodyRequiringToken(token, cookie, body) ==
    IF body.json = "invalid" THEN Res(CatchToken(token), cookie, << >>, "rejected", ParseError)
    ELSE IF body.json = "null" \/ ~Truthy(body.accessToken)
    THEN Res(CatchToken(token), cookie, << >>, "rejected", NullBodyError)
    ELSE IF NotifiesTokenRefresh(StoredToken(body))
    THEN Res(StoredToken(body), CookieAfterRefresh(cookie),
             <<Invoke("onTokenRefresh", StoredToken(body))>>,
             IF config.hooks["onTokenRefresh"] = "throws" THEN "throwing" ELSE "resolved",
             IF config.hooks["onTokenRefresh"] = "throws"
             THEN ThrownBy("onTokenRefresh") ELSE NoError)
    ELSE Res(StoredToken(body), CookieAfterRefresh(cookie), << >>, "resolved", NoError)

\* The inner handler of a 200 response: response.json().then(data => ...).
\* An unparseable body rejects json(); a null body makes data.accessToken
\* throw before anything is written; both go straight to .catch.
OnBody(token, cookie, body) ==
    IF body.json = "invalid" THEN Res(CatchToken(token), cookie, << >>, "rejected", ParseError)
    ELSE IF body.json = "null"
    THEN Res(CatchToken(token), cookie, << >>, "rejected", NullBodyError)
    ELSE IF NotifiesTokenRefresh(StoredToken(body))
    THEN Res(StoredToken(body), CookieAfterRefresh(cookie),
             <<Invoke("onTokenRefresh", StoredToken(body))>>,
             IF config.hooks["onTokenRefresh"] = "throws" THEN "throwing" ELSE "resolved",
             IF config.hooks["onTokenRefresh"] = "throws"
             THEN ThrownBy("onTokenRefresh") ELSE NoError)
    ELSE Res(StoredToken(body), CookieAfterRefresh(cookie), << >>, "resolved", NoError)

\* Handlers that take a 401 for an error when the browser has logged in
\* before (the session has expired) and for a plain "no session" otherwise.
OnResponseExpiredSession(token, cookie, resp) ==
    CASE Branch(resp) = "catch" ->
           Res(CatchToken(token), cookie, << >>, "rejected", NetworkError)
      [] Branch(resp) = "ok" -> OnBody(token, cookie, resp.body)
      [] Branch(resp) = "unauthorized" /\ cookie = Absent ->
           Res(UnauthorizedToken(token), cookie, << >>, "resolved", NoError)
      [] OTHER ->
           Res(CatchToken(token), cookie, << >>, "rejected", resp.statusText)

\* fetch(url, options).then(response => ...).catch(error => ...), up to the
\* point where the call's handlers have all run or one has thrown after
\* writing the token.
OnResponse(token, cookie, resp) ==
    CASE Branch(resp) = "catch" ->
           Res(CatchToken(token), cookie, << >>, "rejected", NetworkError)
      [] Branch(resp) = "ok" -> OnBody(token, cookie, resp.body)
      [] Branch(resp) = "unauthorized" ->
           Res(UnauthorizedToken(token), cookie, << >>, "resolved", NoError)
      [] OTHER ->
           Res(CatchToken(token), cookie, << >>, "rejected", resp.statusText)

\* A refresh() that ignores an exception of the onTokenRefresh callback.
AfterRefreshIgnoringThrow(kind, how) ==
    IF kind = "init"
    THEN (IF how \in {"resolved", "throwing"} THEN "awaitResolved" ELSE "awaitRejected")
    ELSE (IF how = "throwing" THEN "resolved" ELSE how)

\* Where a call stands once its refresh() has ended one way or the other:
\* refresh() itself is settled, init() resumes after its await.
AfterRefresh(kind, how) ==
    IF how = "throwing" THEN "catching"
    ELSE IF kind = "init"
    THEN (IF how = "resolved" THEN "awaitResolved" ELSE "awaitRejected")
    ELSE how

\* The record of a call after the handlers ran on the response to its
\* request, with result r.
Processed(call, resp, r) ==
    [call EXCEPT !.resp = resp, !.error = r.error,
                 !.refreshEnd = IF r.how = "throwing" THEN "pending" ELSE r.how,
                 !.thrown = IF call.kind = "refresh" /\ r.how = "rejected"
                            THEN r.error ELSE NoError,
                 !.trace = @ \o r.events,
                 !.pc = AfterRefresh(call.kind, r.how)]

\* The second client gets the same response to its call c, if that call
\* waits for one.
TwinRespond(c, resp) ==
    IF twin.calls[c].pc = "fetching"
    THEN LET r == OnResponse(twin.accessToken, twin.cookie, resp) IN
             Client(r.accessToken, r.cookie,
                    [twin.calls EXCEPT ![c] = Processed(@, resp, r)])
    ELSE twin

\* The transport answers call c's request (or fails) and the handlers run.
Respond(c, resp) ==
    /\ calls[c].pc = "fetching"
    /\ LET r == OnResponse(accessToken, cookies[ALREADY_LOGGED_COOKIE], resp) IN
          /\ accessToken' = r.accessToken
          /\ cookies' = [cookies EXCEPT ![ALREADY_LOGGED_COOKIE] = r.cookie]
          /\ calls' = [calls EXCEPT ![c] = Processed(@, resp, r)]
          /\ lastSettled' = IF r.how = "throwing" THEN lastSettled ELSE c
    /\ twin' = TwinRespond(c, resp)
    /\ UNCHANGED <<config, provider, fetchCount, freshSession>>

\* The record of a call after its .catch handler ran.
Caught(call) ==
    [call EXCEPT !.refreshEnd = "rejected",
                 !.thrown = IF call.kind = "refresh" THEN call.error ELSE NoError,
                 !.pc = AfterRefresh(call.kind, "rejected")]

\* The .catch handler of the second client's call c, if it is due.
TwinCatch(c) ==
    IF twin.calls[c].pc = "catching"
    THEN Client(CatchToken(twin.accessToken), twin.cookie,
                [twin.calls EXCEPT ![c] = Caught(@)])
    ELSE twin

\* The .catch handler of a call whose onTokenRefresh callback has thrown.
Catch(c) ==
    /\ calls[c].pc = "catching"
    /\ accessToken' = CatchToken(accessToken)
    /\ calls' = [calls EXCEPT ![c] = Caught(@)]
    /\ twin' = TwinCatch(c)
    /\ lastSettled' = c
    /\ UNCHANGED <<config, cookies, provider, fetchCount, freshSession>>

(* ------------------------- init(): after the await --------------------- *)

NoHook == "none"

\* A checkAccessToken() without its else branch.
checkAccessTokenNoElse(token) ==
    IF Truthy(token) /\ Configured("onLoginSuccess") THEN "onLoginSuccess" ELSE NoHook

\* checkAccessToken(): the callback it invokes, if any.
checkAccessToken(token) ==
    IF Truthy(token)
    THEN (IF Configured("onLoginSuccess") THEN "onLoginSuccess" ELSE NoHook)
    ELSE (IF Configured("onLoginRequired") THEN "onLoginRequired" ELSE NoHook)

\* How the rest of init() went: the events it added, whether init() resolved
\* or rejected, and with what.
End(events, pc, error) == [events |-> events, pc |-> pc, error |-> error]

\* A catch block that rethrows what it cannot report.
InitCatchRethrow(error) ==
    IF Configured("onError")
    THEN (IF config.hooks["onError"] = "throws"
          THEN End(<<Invoke("onError", error)>>, "rejected", ThrownBy("onError"))
          ELSE End(<<Invoke("onError", error)>>, "resolved", NoError))
    ELSE End(<< >>, "rejected", error)

\* A catch block that goes on to ask for a login after reporting the error.
InitCatchThenLoginRequired(error) ==
    IF Configured("onError")
    THEN (IF config.hooks["onError"] = "throws"
          THEN End(<<Invoke("onError", error)>>, "rejected", ThrownBy("onError"))
          ELSE End(<<Invoke("onError", error), Invoke("onLoginRequired", Absent)>>,
                   "resolved", NoError))
    ELSE End(<<Invoke("onLoginRequired", Absent)>>, "resolved", NoError)

\* The catch block of init(): onError(error) when configured; an exception
\* thrown by onError itself leaves init().
InitCatch(error) ==
    IF Configured("onError")
    THEN (IF config.hooks["onError"] = "throws"
          THEN End(<<Invoke("onError", error)>>, "rejected", ThrownBy("onError"))
          ELSE End(<<Invoke("onError", error)>>, "resolved", NoError))
    ELSE End(<< >>, "resolved", NoError)

\* A try block that notifies the token again after the login callback.
InitTryNotifiesTokenAgain(token) ==
    IF Truthy(token) /\ Configured("onLoginSuccess") /\ Configured("onTokenRefresh")
    THEN End(<<Ev("onLoginSuccess", Absent, FALSE), Ev("onTokenRefresh", token, FALSE)>>,
             "resolved", NoError)
    ELSE End(<< >>, "resolved", NoError)

\* An init() that calls checkAccessToken() outside its try block: an
\* exception of the login callback leaves init().
InitTryUnguarded(token) ==
    IF checkAccessToken(token) = NoHook THEN End(<< >>, "resolved", NoError)
    ELSE IF config.hooks[checkAccessToken(token)] = "throws"
    THEN End(<<Invoke(checkAccessToken(token), Absent)>>, "rejected",
             ThrownBy(checkAccessToken(token)))
    ELSE End(<<Invoke(checkAccessToken(token), Absent)>>, "resolved", NoError)

\* The try block of init() after refresh() resolved: checkAccessToken(), whose
\* callback may throw into the catch block.
InitTry(token) ==
    IF checkAccessToken(token) = NoHook THEN End(<< >>, "resolved", NoError)
    ELSE IF config.hooks[checkAccessToken(token)] = "throws"
    THEN End(<<Invoke(checkAccessToken(token), Absent)>>
                 \o InitCatch(ThrownBy(checkAccessToken(token))).events,
             InitCatch(ThrownBy(checkAccessToken(token))).pc,
             InitCatch(ThrownBy(checkAccessToken(token))).error)
    ELSE End(<<Invoke(checkAccessToken(token), Absent)>>, "resolved", NoError)

\* The record of an init() call after the rest of init() ran, the client's
\* token being as given.
Continued(call, token) ==
    LET e == IF call.pc = "awaitResolved" THEN InitTry(token)
             ELSE InitCatch(call.error) IN
        [call EXCEPT !.trace = @ \o e.events, !.pc = e.pc, !.thrown = e.error]

\* The second client's init() call c resumes, if it waits at its await.
TwinContinue(c) ==
    IF twin.calls[c].pc \in {"awaitResolved", "awaitRejected"}
    THEN [twin EXCEPT !.calls[c] = Continued(@, twin.accessToken)]
    ELSE twin

\* init() resumes after await this.refresh().
InitContinue(c) ==
    /\ calls[c].pc \in {"awaitResolved", "awaitRejected"}
    /\ calls' = [calls EXCEPT ![c] = Continued(@, accessToken)]
    /\ twin' = TwinContinue(c)
    /\ UNCHANGED <<config, accessToken, cookies, provider, fetchCount, lastSettled,
                   freshSession>>

(* --------------------------- login(), logout() ------------------------- *)

\* login(): self.location.assign(this.getLoginUrl())
login ==
    /\ Len(calls) < MaxCalls
    /\ calls' = Append(calls,
           NewCall("login", "returned", NoError,
               ProviderEvents \o <<Ev("assign", getLoginUrl, FALSE)>>))
    /\ twin' = [twin EXCEPT !.calls = Append(@,
           NewCall("login", "returned", NoError,
               ProviderEvents \o <<Ev("assign", getLoginUrl, FALSE)>>))]
    /\ provider' = ProviderAfterCall
    /\ UNCHANGED <<config, accessToken, cookies, fetchCount, lastSettled, freshSession>>

\* The steps of logout(): the onLogout callback when configured, then the
\* navigation; an exception thrown by the callback leaves logout() at once.
logoutEvents ==
    IF Configured("onLogout")
    THEN (IF config.hooks["onLogout"] = "throws" THEN <<Invoke("onLogout", Absent)>>
          ELSE <<Invoke("onLogout", Absent), Ev("assign", getLogoutUrl, FALSE)>>)
    ELSE <<Ev("assign", getLogoutUrl, FALSE)>>

\* A logout() that also drops the token held in memory.
logoutClearingToken ==
    /\ Len(calls) < MaxCalls
    /\ calls' = Append(calls,
           NewCall("logout",
               IF config.hooks["onLogout"] = "throws" THEN "threw" ELSE "returned",
               IF config.hooks["onLogout"] = "throws" THEN ThrownBy("onLogout") ELSE NoError,
               logoutEvents))
    /\ twin' = [twin EXCEPT !.accessToken = Absent, !.calls = Append(@,
           NewCall("logout",
               IF config.hooks["onLogout"] = "throws" THEN "threw" ELSE "returned",
               IF config.hooks["onLogout"] = "throws" THEN ThrownBy("onLogout") ELSE NoError,
               logoutEvents))]
    /\ accessToken' = Absent
    /\ UNCHANGED <<config, cookies, provider, fetchCount, lastSettled, freshSession>>

\* logout()
logout ==
    /\ Len(calls) < MaxCalls
    /\ calls' = Append(calls,
           NewCall("logout",
               IF config.hooks["onLogout"] = "throws" THEN "threw" ELSE "returned",
               IF config.hooks["onLogout"] = "throws" THEN ThrownBy("onLogout") ELSE NoError,
               logoutEvents))
    /\ twin' = [twin EXCEPT !.calls = Append(@,
           NewCall("logout",
               IF config.hooks["onLogout"] = "throws" THEN "threw" ELSE "returned",
               IF config.hooks["onLogout"] = "throws" THEN ThrownBy("onLogout") ELSE NoError,
               logoutEvents))]
    /\ UNCHANGED <<config, accessToken, cookies, provider, fetchCount, lastSettled,
                   freshSession>>

(* ---------------------------- specification ---------------------------- *)

Next ==
    \/ init
    \/ refresh
    \/ login
    \/ logout
    \/ \E c \in CallIds : \E resp \in Outcomes : Respond(c, resp)
    \/ \E c \in CallIds : Catch(c)
    \/ \E c \in CallIds : InitContinue(c)

Spec == Init /\ [][Next]_vars

\* The promise handlers and continuations that are due do run: the event
\* loop executes every queued reaction (the .catch handler after a handler
\* has thrown, the rest of init() after its await).  Nothing obliges the host
\* to make a call or the transport to answer.
FairSpec ==
    /\ Spec
    /\ WF_vars(\E c \in CallIds : Catch(c))
    /\ WF_vars(\E c \in CallIds : InitContinue(c))

(* ======================= properties of the client ====================== *)

\* The calls that run refresh(): refresh() itself and init().
RefreshCalls == {c \in CallIds : calls[c].kind \in {"init", "refresh"}}

InitCalls == {c \in CallIds : calls[c].kind = "init"}

\* An init() call that has completed, one way or the other.
InitDone(c) == calls[c].kind = "init" /\ calls[c].pc \in {"resolved", "rejected"}

\* How often a call's trace holds an event of the given name.
Count(trace, name) == Cardinality({i \in 1..Len(trace) : trace[i].ev = name})

\* The positions of the events of the given name in a trace.
Positions(trace, name) == {i \in 1..Len(trace) : trace[i].ev = name}

\* The transport answered with 200 and a body that parsed to an object.
Parsed200(resp) == resp.net = "ok" /\ resp.status = 200 /\ resp.body.json = "object"

\* The transport failed or answered with a body that is no JSON object.
NetworkOrParseFailure(resp) ==
    \/ resp.net = "failed"
    \/ resp.net = "ok" /\ resp.status = 200 /\ resp.body.json # "object"

\* The transport answered with a status other than 200 and 401.
OtherStatus(resp) == resp.net = "ok" /\ resp.status \notin {200, 401}

Unauthorized(resp) == resp.net = "ok" /\ resp.status = 401

\* In this step the refresh() of call c settles (its last handler runs).
RefreshSettles(c) ==
    /\ calls[c].refreshEnd = "pending"
    /\ calls'[c].refreshEnd # "pending"

\* In this step the response of call c's request is processed.
ResponseProcessed(c) == calls[c].pc = "fetching" /\ calls'[c].pc # "fetching"

(* ----------------------------------------------------------------------- *)
\* C1, the states: getAccessToken() returns absent as long as no refresh()
\* has processed an HTTP 200 response.
C1_AbsentUntil200 ==
    getAccessToken # Absent =>
        \E c \in RefreshCalls : calls[c].resp.net = "ok" /\ calls[c].resp.status = 200

\* C1, the steps: getAccessToken() returns absent right after any refresh()
\* settles with 401, another non-200 status, or a network or parse failure.
C1_AbsentAfterFailure ==
    \A c \in CallIds :
        (RefreshSettles(c)
         /\ (Unauthorized(calls'[c].resp) \/ OtherStatus(calls'[c].resp)
             \/ NetworkOrParseFailure(calls'[c].resp)))
        => getAccessToken' = Absent

\* C1: for every sequence of init(), refresh(), login() and logout() calls and
\* of server responses, getAccessToken() returns absent until some refresh()
\* has processed an HTTP 200 response, and returns absent right after any
\* refresh() that settles with 401, another non-200 status, or a network or
\* parse failure, whatever calls were made before or are still in flight.
C1_TokenLifecycle == [](C1_AbsentUntil200) /\ [][C1_AbsentAfterFailure]_vars

\* A token was obtained by one call and a later failure of another call has
\* cleared it.
C1_Witness ==
    \E c, d \in RefreshCalls :
        /\ Parsed200(calls[c].resp) /\ calls[c].resp.body.accessToken \in Tokens
        /\ calls[c].refreshEnd = "resolved"
        /\ OtherStatus(calls[d].resp) /\ lastSettled = d
        /\ getAccessToken = Absent

(* ----------------------------------------------------------------------- *)
\* Both login callbacks are configured.
BothLoginHooks == Configured("onLoginSuccess") /\ Configured("onLoginRequired")

\* How many times a call invoked onLoginSuccess or onLoginRequired.
LoginNotifications(c) ==
    Count(calls[c].trace, "onLoginSuccess") + Count(calls[c].trace, "onLoginRequired")

\* C2 as stated: every completed init() call, both callbacks configured, has
\* invoked exactly one of onLoginSuccess and onLoginRequired, for every
\* outcome of its refresh.
C2_ExactlyOneAlways ==
    \A c \in InitCalls :
        (InitDone(c) /\ BothLoginHooks) => LoginNotifications(c) = 1

\* C2 as amended: a completed init() call, both callbacks configured, has
\* invoked exactly one of the two when its refresh() resolved (and never one
\* of them before the refresh settled), and neither when its refresh()
\* rejected.
C2_ExactlyOneWhenResolved ==
    \A c \in InitCalls :
        BothLoginHooks =>
            /\ (InitDone(c) /\ calls[c].refreshEnd = "resolved") => LoginNotifications(c) = 1
            /\ (InitDone(c) /\ calls[c].refreshEnd = "rejected") => LoginNotifications(c) = 0
            /\ ~InitDone(c) => LoginNotifications(c) = 0

\* One init() resolved its refresh and notified once; another met a server
\* error and notified neither callback.
C2_Witness ==
    /\ BothLoginHooks
    /\ \E c, d \in InitCalls :
          /\ InitDone(c) /\ calls[c].refreshEnd = "resolved" /\ LoginNotifications(c) = 1
          /\ InitDone(d) /\ OtherStatus(calls[d].resp) /\ LoginNotifications(d) = 0

(* ----------------------------------------------------------------------- *)
\* The refresh() of the call failed in the transport: a status other than
\* 200 and 401, a network failure or an unparseable body.
TransportFailure(c) ==
    OtherStatus(calls[c].resp) \/ NetworkOrParseFailure(calls[c].resp)

\* C3: an init() call whose refresh met a transport failure never rejects
\* with it: init() resolves whenever onError is missing or returns (when it
\* is missing, nothing is invoked and the error is dropped), and the only
\* thing that can leave init() is an exception thrown by onError itself.
C3_InitNeverThrows ==
    \A c \in InitCalls :
        (InitDone(c) /\ TransportFailure(c)) =>
            /\ config.hooks["onError"] # "throws" =>
                  calls[c].pc = "resolved" /\ calls[c].thrown = NoError
            /\ calls[c].pc = "rejected" => calls[c].thrown = ThrownBy("onError")
            /\ ~Configured("onError") => Count(calls[c].trace, "onError") = 0

\* An init() call met a network failure with no onError configured and
\* resolved all the same.
C3_Witness ==
    \E c \in InitCalls :
        /\ calls[c].resp.net = "failed" /\ ~Configured("onError")
        /\ calls[c].pc = "resolved" /\ calls[c].refreshEnd = "rejected"

(* ----------------------------------------------------------------------- *)
\* C4: a completed init() call whose refresh() rejected has invoked onError
\* (when configured) exactly once, with the error refresh() rejected with,
\* and has invoked neither onLoginSuccess nor onLoginRequired.
C4_ErrorPath ==
    \A c \in InitCalls :
        (InitDone(c) /\ calls[c].refreshEnd = "rejected") =>
            /\ Count(calls[c].trace, "onError") = IF Configured("onError") THEN 1 ELSE 0
            /\ \A i \in Positions(calls[c].trace, "onError") :
                  calls[c].trace[i].arg = calls[c].error /\ calls[c].error # NoError
            /\ LoginNotifications(c) = 0

\* An init() call got a 500 and reported "Server Error" to onError.
C4_Witness ==
    \E c \in InitCalls :
        /\ InitDone(c) /\ OtherStatus(calls[c].resp) /\ BothLoginHooks
        /\ calls[c].trace[Len(calls[c].trace)] = Ev("onError", "Server Error", FALSE)

(* ----------------------------------------------------------------------- *)
\* The onTokenRefresh callback of the call threw.
TokenRefreshThrew(c) ==
    \E i \in Positions(calls'[c].trace, "onTokenRefresh") : calls'[c].trace[i].threw

\* The error a refresh() rejects with, by what the transport delivered.
ExpectedError(resp) ==
    IF resp.net = "failed" THEN NetworkError
    ELSE IF resp.status = 200
    THEN (IF resp.body.json = "invalid" THEN ParseError
          ELSE IF resp.body.json = "null" THEN NullBodyError
          ELSE ThrownBy("onTokenRefresh"))
    ELSE resp.statusText

\* C5, one step: what holds when the refresh() of a call settles.
C5_SettleStep ==
    \A c \in CallIds :
        RefreshSettles(c) =>
            /\ calls'[c].refreshEnd = "resolved" <=>
                  \/ Unauthorized(calls'[c].resp)
                  \/ Parsed200(calls'[c].resp) /\ ~TokenRefreshThrew(c)
            /\ calls'[c].refreshEnd = "resolved" => calls'[c].error = NoError
            /\ calls'[c].refreshEnd = "rejected" =>
                  /\ calls'[c].error = ExpectedError(calls'[c].resp)
                  /\ getAccessToken' = Absent
                  /\ calls'[c].kind = "refresh" => calls'[c].thrown = calls'[c].error

CarriesToken(resp) == Parsed200(resp) /\ Truthy(resp.body.accessToken)

\* C6 as stated: every refresh() that resolved on an HTTP 200, with
\* onTokenRefresh configured, has invoked onTokenRefresh exactly once.
C6_NotifiedOnEvery200 ==
    \A c \in RefreshCalls :
        (calls[c].refreshEnd = "resolved" /\ calls[c].resp.status = 200
         /\ Configured("onTokenRefresh"))
        => Count(calls[c].trace, "onTokenRefresh") = 1

\* C6 as amended, the calls' histories: a call has invoked onTokenRefresh
\* once, with the token of the response body, when onTokenRefresh is
\* configured and its response was a 200 carrying a non-empty accessToken,
\* and not at all otherwise (a 200 without a usable token, a 401, an error,
\* no response yet).
C6_NotifiedOncePerToken ==
    \A c \in CallIds :
        /\ Count(calls[c].trace, "onTokenRefresh") =
              IF Configured("onTokenRefresh") /\ CarriesToken(calls[c].resp) THEN 1 ELSE 0
        /\ \A i \in Positions(calls[c].trace, "onTokenRefresh") :
              calls[c].trace[i].arg = calls[c].resp.body.accessToken

\* C6 as amended, the moment of the notification: the token passed to
\* onTokenRefresh is the one getAccessToken() returns at that moment.
C6_NotifiedWithCurrentToken ==
    \A c \in CallIds :
        ResponseProcessed(c) =>
            \A i \in Positions(calls'[c].trace, "onTokenRefresh") :
                calls'[c].trace[i].arg = getAccessToken'

\* C6 as amended: a refresh() that processes an HTTP 200 response carrying a
\* non-empty accessToken, with onTokenRefresh configured, invokes
\* onTokenRefresh exactly once, with the token of the response body, which is
\* the value getAccessToken() returns at that moment; a refresh() whose 200
\* response carries no usable token, or that ends with 401 or an error, never
\* invokes it.
C6_TokenRefreshNotification ==
    [](C6_NotifiedOncePerToken) /\ [][C6_NotifiedWithCurrentToken]_vars

\* A refresh notified the token "abc123" it got, and another refresh whose
\* 200 response carried no token resolved without notifying.
C6_Witness ==
    \E c, d \in RefreshCalls :
        /\ Configured("onTokenRefresh")
        /\ calls[c].resp.body.accessToken = "abc123" /\ calls[c].refreshEnd = "resolved"
        /\ Ev("onTokenRefresh", "abc123", FALSE) = calls[c].trace[Len(calls[c].trace)]
        /\ Parsed200(calls[d].resp) /\ ~Truthy(calls[d].resp.body.accessToken)
        /\ calls[d].refreshEnd = "resolved" /\ Count(calls[d].trace, "onTokenRefresh") = 0

(* ----------------------------------------------------------------------- *)
\* C7, the states: in a fresh session hasLoggedInBefore() is true exactly
\* when some refresh() has processed a 200 response whose body parsed.
C7_FlagIffRefreshed ==
    freshSession =>
        (hasLoggedInBefore <=> \E c \in RefreshCalls : Parsed200(calls[c].resp))

\* C7, the steps: the flag is never cleared, every refresh() that processes a
\* 200 response whose body parsed sets it, and nothing else writes the cookie
\* (no 401, failure, init() continuation, login() or logout()).
C7_FlagWrittenOnlyByRefresh ==
    /\ hasLoggedInBefore => hasLoggedInBefore'
    /\ \A c \in CallIds :
          (ResponseProcessed(c) /\ Parsed200(calls'[c].resp)) => hasLoggedInBefore'
    /\ cookies' # cookies =>
          \E c \in CallIds : ResponseProcessed(c) /\ Parsed200(calls'[c].resp)

\* C7: in a fresh session hasLoggedInBefore() returns false until the first
\* refresh() processes an HTTP 200 response whose body parsed, and true from
\* then on: only such a refresh() writes the flag, and no later refresh()
\* outcome nor any init(), login() or logout() call clears it.
C7_SessionFlag == [](C7_FlagIffRefreshed) /\ [][C7_FlagWrittenOnlyByRefresh]_vars

\* In a fresh session a refresh succeeded, a later one got a 401, and the
\* flag is still set.
C7_Witness ==
    /\ freshSession /\ hasLoggedInBefore /\ getAccessToken = Absent
    /\ \E c, d \in RefreshCalls :
          /\ CarriesToken(calls[c].resp) /\ calls[c].refreshEnd = "resolved"
          /\ Unauthorized(calls[d].resp) /\ lastSettled = d

(* ----------------------------------------------------------------------- *)
\* The token a settled refresh() leaves behind, by its response alone.
FinalToken(c) ==
    IF calls[c].refreshEnd = "resolved" /\ Parsed200(calls[c].resp)
    THEN calls[c].resp.body.accessToken ELSE Absent

\* C8: every refresh() and init() call issues a request of its own, also
\* while another one is in flight, and once all of them have settled the
\* access token is what the response processed last has written, whichever
\* call was issued first.
C8_LastWriterWins ==
    /\ fetchCount = Cardinality(RefreshCalls)
    /\ \A c \in RefreshCalls : Count(calls[c].trace, "fetch") = 1
    /\ (lastSettled # 0 /\ \A c \in RefreshCalls : calls[c].refreshEnd # "pending")
          => /\ lastSettled \in RefreshCalls
             /\ getAccessToken = FinalToken(lastSettled)

\* Two refresh() calls were in flight together; the second got a token first,
\* then the first got its 401: the token is absent.
C8_Witness ==
    /\ Len(calls) = 2 /\ calls[1].kind = "refresh" /\ calls[2].kind = "refresh"
    /\ CarriesToken(calls[2].resp) /\ calls[2].pc = "resolved"
    /\ Unauthorized(calls[1].resp) /\ calls[1].pc = "resolved"
    /\ lastSettled = 1 /\ fetchCount = 2
    /\ getAccessToken = Absent

(* ----------------------------------------------------------------------- *)
\* The place of a callback in the order of one init() call (0: no callback).
HookRank(name) ==
    CASE name = "onTokenRefresh" -> 1
      [] name \in {"onLoginSuccess", "onLoginRequired"} -> 2
      [] name = "onError" -> 3
      [] OTHER -> 0

\* C9: in one init() call the callbacks fire in the order token-refreshed,
\* login-succeeded or login-required, error, each at most once (and not both
\* login callbacks), and the login callbacks and onError fire only after the
\* call's refresh() has settled.
C9_HookOrder ==
    \A c \in InitCalls :
        /\ \A i, j \in 1..Len(calls[c].trace) :
              (i < j /\ HookRank(calls[c].trace[j].ev) > 0)
              => HookRank(calls[c].trace[i].ev) < HookRank(calls[c].trace[j].ev)
        /\ calls[c].refreshEnd = "pending" =>
              \A i \in 1..Len(calls[c].trace) : HookRank(calls[c].trace[i].ev) < 2

\* An init() call fired all three kinds of callbacks: the token was
\* refreshed, onLoginSuccess threw, and onError got its exception.
C9_Witness ==
    \E c \in InitCalls :
        /\ InitDone(c) /\ Len(calls[c].trace) >= 3
        /\ SubSeq(calls[c].trace, Len(calls[c].trace) - 2, Len(calls[c].trace)) =
              <<Ev("onTokenRefresh", "xyz789", FALSE), Ev("onLoginSuccess", Absent, TRUE),
                Ev("onError", ThrownBy("onLoginSuccess"), FALSE)>>

(* ----------------------------------------------------------------------- *)
LogoutCalls == {c \in CallIds : calls[c].kind = "logout"}

\* The logout URL, written out for each base URL the constructor can derive.
ExpectedLogoutUrl ==
    IF config.baseUrl = "https://auth.example" THEN "https://auth.example/auth/logout"
    ELSE "https://bkper.app/auth/logout"

\* C10: a logout() call invokes onLogout exactly once when it is configured
\* (and nothing when it is not), navigates at most once and only after the
\* callback has returned, to baseUrl + "/auth/logout" exactly, and never
\* consults the extra-params provider.
C10_Logout ==
    \A c \in LogoutCalls :
        /\ Count(calls[c].trace, "onLogout") = IF Configured("onLogout") THEN 1 ELSE 0
        /\ Count(calls[c].trace, "assign") = IF calls[c].pc = "returned" THEN 1 ELSE 0
        /\ \A i \in Positions(calls[c].trace, "assign") :
              /\ calls[c].trace[i].arg = ExpectedLogoutUrl
              /\ Configured("onLogout") =>
                    \E j \in Positions(calls[c].trace, "onLogout") :
                        j < i /\ ~calls[c].trace[j].threw
        /\ Count(calls[c].trace, "getAdditionalAuthParams") = 0
        /\ calls[c].pc = "threw" <=> config.hooks["onLogout"] = "throws"

\* A logout() with onLogout and an extra-params provider configured notified
\* and then navigated to the bare logout URL.
C10_Witness ==
    \E c \in LogoutCalls :
        /\ config.getAdditionalAuthParams
        /\ calls[c].trace = <<Ev("onLogout", Absent, FALSE),
                              Ev("assign", "https://bkper.app/auth/logout", FALSE)>>

(* ----------------------------------------------------------------------- *)
LoginCalls == {c \in CallIds : calls[c].kind = "login"}

\* In this step the host makes a call of the given kind.
Called(kind) == Len(calls') = Len(calls) + 1 /\ calls'[Len(calls')].kind = kind

\* C11, the states: a login() call has invoked none of the callbacks.
C11_LoginNotifiesNothing ==
    \A c \in LoginCalls :
        \A i \in 1..Len(calls[c].trace) : calls[c].trace[i].ev \notin Hooks

\* C11, the steps: a login() or logout() call leaves the access token and
\* the cookie jar as they were.
C11_CallLeavesStateAlone ==
    (Called("login") \/ Called("logout")) =>
        /\ getAccessToken' = getAccessToken
        /\ hasLoggedInBefore' = hasLoggedInBefore
        /\ cookies' = cookies

\* C11: login() and logout() leave the client state unchanged: after either
\* call getAccessToken() and hasLoggedInBefore() return what they returned
\* before it (logout() does not clear the token), and login() invokes none of
\* the callbacks.
C11_LoginLogoutFrame ==
    [](C11_LoginNotifiesNothing) /\ [][C11_CallLeavesStateAlone]_vars

\* A refresh() obtained a token, then logout() notified onLogout and
\* navigated away: the token is still held and the flag still set.
C11_Witness ==
    \E c \in RefreshCalls : \E d \in LogoutCalls :
        /\ c < d /\ CarriesToken(calls[c].resp) /\ calls[c].refreshEnd = "resolved"
        /\ Count(calls[d].trace, "onLogout") = 1 /\ Count(calls[d].trace, "assign") = 1
        /\ getAccessToken = calls[c].resp.body.accessToken
        /\ hasLoggedInBefore

(* ----------------------------------------------------------------------- *)
\* The string s contains the string t.
Contains(s, t) ==
    \E i \in 1..(Len(s) - Len(t) + 1) : SubSeq(s, i, i + Len(t) - 1) = t

\* The URLs requested or navigated to in the history of a call.
UrlsIn(trace) ==
    {trace[i].arg : i \in {j \in 1..Len(trace) : trace[j].ev \in {"fetch", "assign"}}}

UrlsOf(c) == UrlsIn(calls[c].trace)

\* C12, the states: the cookie jar holds the 'already-logged' cookie alone,
\* with no value or the fixed marker 'true', never a token.
C12_CookieHoldsMarkerOnly ==
    /\ DOMAIN cookies = {ALREADY_LOGGED_COOKIE}
    /\ cookies[ALREADY_LOGGED_COOKIE] \in {Absent, "true"}

\* C12, the steps: the URLs of a call are those built when the call is made,
\* and none of them contains a token the server can send, whether the client
\* holds one at that moment or not.
C12_UrlsCarryNoToken ==
    /\ \A c \in CallIds : UrlsIn(calls'[c].trace) = UrlsOf(c)
    /\ Len(calls') > Len(calls) =>
          \A url \in UrlsIn(calls'[Len(calls')].trace) :
              \A t \in Tokens : ~Contains(url, t)

\* C12: the access token exists only in the client's memory: no operation
\* writes it to the cookie store (the cookie only ever holds the fixed
\* marker), and no URL the client requests (refresh) or navigates to (login,
\* logout) contains it.
C12_TokenInMemoryOnly ==
    [](C12_CookieHoldsMarkerOnly) /\ [][C12_UrlsCarryNoToken]_vars

\* A refresh() obtained a token and stored the marker; with the token held,
\* a second call built its URL, and the URL does not carry the token.
C12_Witness ==
    /\ Len(calls) = 2
    /\ CarriesToken(calls[1].resp) /\ getAccessToken = calls[1].resp.body.accessToken
    /\ cookies[ALREADY_LOGGED_COOKIE] = "true"
    /\ calls[2].kind \in {"refresh", "login"} /\ calls[2].resp = Pending
    /\ UrlsOf(2) # {} /\ \A url \in UrlsOf(2) : ~Contains(url, getAccessToken)

(* ----------------------------------------------------------------------- *)
\* C13: the session hint flag does not influence refresh() or init(): the
\* second client, which differs from the first only in the initial value of
\* its 'already-logged' cookie and gets the same calls and the same server
\* responses, has at every moment the same access token and the same calls
\* with the same histories: the same requests to the same URLs, the same
\* callbacks invoked in the same order with the same arguments, the same
\* outcome and error of every refresh() and init().
C13_FlagHasNoInfluence ==
    /\ twin.accessToken = accessToken
    /\ twin.calls = calls

\* The two clients' flags differ from the start to the end (one browser has
\* logged in before, the other has not), an init() got a 401 and a second
\* call a server error: both clients asked for a login and reported the
\* error alike.
C13_Witness ==
    /\ twin.cookie # cookies[ALREADY_LOGGED_COOKIE]
    /\ \E c \in InitCalls : \E d \in RefreshCalls :
          /\ InitDone(c) /\ Unauthorized(calls[c].resp)
          /\ Count(twin.calls[c].trace, "onLoginRequired") = 1
          /\ Count(calls[c].trace, "onLoginRequired") = 1
          /\ OtherStatus(calls[d].resp) /\ twin.calls[d].refreshEnd = "rejected"
          /\ twin.calls[d].error = "Server Error"

(* ----------------------------------------------------------------------- *)
\* The client has come to rest: no request is in flight, no promise handler
\* and no continuation of init() is due, so nothing more happens unless the
\* host makes another call.
Quiescent ==
    \A c \in CallIds : calls[c].pc \in {"resolved", "rejected", "returned", "threw"}

\* The request of the call failed: the transport failed, or the server
\* answered with a status other than 200 and 401.
RequestFailed(c) == calls[c].resp.net = "failed" \/ OtherStatus(calls[c].resp)

\* C14 as stated: the refresh mechanism retries automatically: when the
\* request of a refresh() or init() call has failed and the client has come
\* to rest, the client has issued another request on its own, so the
\* transport has received more requests than the host has made refresh() and
\* init() calls.
C14_RetriesAutomatically ==
    (Quiescent /\ \E c \in RefreshCalls : RequestFailed(c))
        => fetchCount > Cardinality(RefreshCalls)

(* ----------------------------------------------------------------------- *)
\* How many times the provider has been consulted from call c on: once by
\* every call but logout().
ConsultedSince(c) == Cardinality({d \in c..Len(calls) : calls[d].kind # "logout"})

\* Which of its mappings the provider returned to call c: the one that was
\* next when the call was made.
ProviderIndexAt(c) ==
    ((provider - 1 + MaxCalls * Len(ProviderMappings) - ConsultedSince(c))
        % Len(ProviderMappings)) + 1

\* The mapping the provider returned to call c (nothing without a provider).
MappingOf(c) ==
    IF config.getAdditionalAuthParams THEN ProviderMappings[ProviderIndexAt(c)]
    ELSE << >>

\* The current page location, URL-encoded.
EncodedHref == "http%3A%2F%2Flocalhost%3A3000%2Fapp"

\* One query pair per entry, the key and the value each URL-encoded.
RECURSIVE EncodedPairs(_)
EncodedPairs(params) ==
    IF params = << >> THEN ""
    ELSE "&" \o encodeURIComponent(Head(params).key) \o "="
         \o encodeURIComponent(Head(params).value) \o EncodedPairs(Tail(params))

\* C15 as stated: the URL a login() call navigates to is baseUrl +
\* "/auth/login" with returnUrl equal to the URL-encoded page location,
\* followed by one query pair per entry of the mapping the provider returned
\* to that call, each key and each value individually URL-encoded.
C15_LoginUrlEncodesKeysAndValues ==
    \A c \in LoginCalls :
        /\ Count(calls[c].trace, "assign") = 1
        /\ \A i \in Positions(calls[c].trace, "assign") :
              calls[c].trace[i].arg =
                  baseUrl \o "/auth/login?returnUrl=" \o EncodedHref
                  \o EncodedPairs(MappingOf(c))

(* ----------------------------------------------------------------------- *)
\* The login callbacks that threw in a call.
ThrowingLoginHooks(c) ==
    {calls[c].trace[i].ev :
        i \in {j \in 1..Len(calls[c].trace) :
                  /\ calls[c].trace[j].ev \in {"onLoginSuccess", "onLoginRequired"}
                  /\ calls[c].trace[j].threw}}

\* C16 as stated: in a completed init() call an exception thrown by
\* onLoginSuccess or onLoginRequired propagates to the caller of init() and is
\* not routed to onError, and onError has been invoked only if the call's
\* refresh() rejected.
C16_CallbackErrorsPropagate ==
    \A c \in InitCalls :
        InitDone(c) =>
            /\ \A h \in ThrowingLoginHooks(c) :
                  /\ calls[c].pc = "rejected" /\ calls[c].thrown = ThrownBy(h)
                  /\ Count(calls[c].trace, "onError") = 0
            /\ Count(calls[c].trace, "onError") > 0 => calls[c].refreshEnd = "rejected"

\* C16 as amended: the try block of init() guards checkAccessToken() too: in
\* a completed init() call an exception thrown by onLoginSuccess or
\* onLoginRequired is caught and passed to onError (when configured, right
\* after the throwing callback; dropped when not), and init() resolves unless
\* onError itself throws, whose exception alone reaches the caller of init();
\* so onError has been invoked exactly once when it is configured and the
\* call's refresh() rejected or its login callback threw, and not otherwise.
C16_CallbackErrorsRouted ==
    \A c \in InitCalls :
        InitDone(c) =>
            /\ \A h \in ThrowingLoginHooks(c) :
                  /\ calls[c].refreshEnd = "resolved"
                  /\ Configured("onError") =>
                        calls[c].trace[Len(calls[c].trace)].ev = "onError"
                        /\ calls[c].trace[Len(calls[c].trace)].arg = ThrownBy(h)
                        /\ calls[c].trace[Len(calls[c].trace) - 1].ev = h
            /\ Count(calls[c].trace, "onError") =
                  IF Configured("onError")
                     /\ (calls[c].refreshEnd = "rejected" \/ ThrowingLoginHooks(c) # {})
                  THEN 1 ELSE 0
            /\ calls[c].pc = "rejected" <=>
                  \E i \in Positions(calls[c].trace, "onError") : calls[c].trace[i].threw
            /\ calls[c].thrown =
                  IF calls[c].pc = "rejected" THEN ThrownBy("onError") ELSE NoError

\* An init() got a 401, its onLoginRequired callback threw, the exception
\* went to onError and init() resolved.
C16_Witness ==
    \E c \in InitCalls :
        /\ Unauthorized(calls[c].resp) /\ calls[c].refreshEnd = "resolved"
        /\ calls[c].pc = "resolved" /\ calls[c].thrown = NoError
        /\ Len(calls[c].trace) >= 2
        /\ SubSeq(calls[c].trace, Len(calls[c].trace) - 1, Len(calls[c].trace)) =
              <<Ev("onLoginRequired", Absent, TRUE),
                Ev("onError", ThrownBy("onLoginRequired"), FALSE)>>

(* ----------------------------------------------------------------------- *)
\* The call has settled: its promise is resolved or rejected.
Settled(c) == calls[c].pc \in {"resolved", "rejected"}

\* C17, the states: a call whose request the transport has not answered is
\* pending and has done nothing but build its URL and send the request; a
\* call that has settled has got the transport's answer (or failure).
C17_PendingCallIsIdle ==
    \A c \in RefreshCalls :
        /\ calls[c].resp = Pending <=> calls[c].pc = "fetching"
        /\ calls[c].pc = "fetching" =>
              /\ calls[c].refreshEnd = "pending" /\ calls[c].thrown = NoError
              /\ \A i \in 1..Len(calls[c].trace) : calls[c].trace[i].ev \notin Hooks
        /\ Settled(c) => calls[c].resp # Pending

\* C17, the steps: nothing but the transport's answer moves a pending call
\* (there is no timeout), and the access token and the flag change only in a
\* step that runs the handlers of a call whose request has been answered.
C17_OnlyResponseWakes ==
    /\ \A c \in CallIds :
          (calls[c].pc = "fetching" /\ calls'[c] # calls[c]) => calls'[c].resp # Pending
    /\ (accessToken' # accessToken \/ cookies' # cookies) =>
          \E c \in RefreshCalls :
              /\ calls[c].pc \in {"fetching", "catching"}
              /\ calls'[c].pc # calls[c].pc /\ calls'[c].resp # Pending

\* C17: an init() or refresh() call settles only after its HTTP request has
\* settled: while the transport has not responded the call stays pending,
\* changes neither the access token nor the flag and invokes no callback, and
\* nothing else ever wakes it; once the transport has responded or failed,
\* the call eventually settles.
C17_SettlesAfterTransport ==
    /\ [](C17_PendingCallIsIdle)
    /\ [][C17_OnlyResponseWakes]_vars
    /\ \A c \in 1..MaxCalls :
          (c \in RefreshCalls /\ calls[c].resp # Pending) ~> (c \in CallIds /\ Settled(c))

\* An init() still waits for the transport, having invoked nothing, while a
\* refresh() made after it has got its answer, stored the token and settled.
C17_Witness ==
    /\ Len(calls) = 2
    /\ calls[1].kind = "init" /\ calls[1].pc = "fetching" /\ calls[1].resp = Pending
    /\ calls[1].trace[Len(calls[1].trace)].ev = "fetch"
    /\ calls[2].kind = "refresh" /\ CarriesToken(calls[2].resp) /\ Settled(2)
    /\ getAccessToken = calls[2].resp.body.accessToken

(* ----------------------------------------------------------------------- *)
\* What follows the path in the refresh URL and the returnUrl parameter in
\* the login URL, for each mapping of the provider in turn.
RefreshQueries == <<"?tenant=acme", "", "?a+b=x%26%7E">>

LoginQueryPairs == <<"&tenant=acme", "", "&a b=x%26~">>

\* The URL a call of the given kind uses when the provider returns the
\* mapping of the given index to it.
UrlWithMapping(kind, index) ==
    IF kind = "login"
    THEN baseUrl \o "/auth/login?returnUrl=" \o EncodedHref
         \o (IF config.getAdditionalAuthParams THEN LoginQueryPairs[index] ELSE "")
    ELSE baseUrl \o "/auth/refresh"
         \o (IF config.getAdditionalAuthParams THEN RefreshQueries[index] ELSE "")

\* The call made in this step consults the provider: one is configured and
\* the call is not a logout().
Consults == config.getAdditionalAuthParams /\ calls'[Len(calls')].kind # "logout"

\* C18, one step.  A step that makes a call: the provider, when configured,
\* is invoked exactly once by login(), refresh() and init(), before the URL
\* is used, and never by logout(); the call's URL carries the mapping the
\* provider returns at that moment, and the provider has moved on to its
\* next mapping for the next call; the refresh URL holds no question mark
\* when the mapping is empty.  Any other step: the provider is not invoked.
C18_CallConsultsProviderOnce ==
    /\ Len(calls') > Len(calls) =>
          /\ Count(calls'[Len(calls')].trace, "getAdditionalAuthParams") =
                IF Consults THEN 1 ELSE 0
          /\ Consults =>
                /\ calls'[Len(calls')].trace[1].ev = "getAdditionalAuthParams"
                /\ calls'[Len(calls')].trace[2].ev \in {"fetch", "assign"}
                /\ provider' = (provider % Len(ProviderMappings)) + 1
          /\ ~Consults => provider' = provider
          /\ calls'[Len(calls')].kind # "logout" =>
                UrlsIn(calls'[Len(calls')].trace) =
                    {UrlWithMapping(calls'[Len(calls')].kind, provider)}
          /\ (calls'[Len(calls')].kind \in {"refresh", "init"}
              /\ (Consults => ProviderMappings[provider] = << >>)) =>
                \A url \in UrlsIn(calls'[Len(calls')].trace) : ~Contains(url, "?")
    /\ Len(calls') = Len(calls) =>
          /\ provider' = provider
          /\ \A c \in CallIds :
                Count(calls'[c].trace, "getAdditionalAuthParams") =
                    Count(calls[c].trace, "getAdditionalAuthParams")

\* C18: the extra-params provider is invoked afresh, exactly once, on every
\* login() and every refresh() call (init() included) and never on logout();
\* the URL of each call carries the mapping the provider returned for that
\* call, not one cached from an earlier call, and the refresh URL has no
\* query string at all when that mapping is empty.
C18_ProviderInvokedAfresh == [][C18_CallConsultsProviderOnce]_vars

\* The provider returned an empty mapping to a refresh(), whose URL has no
\* query string, and then another mapping to a login(), whose URL carries
\* that one.
C18_Witness ==
    /\ Len(calls) = 2 /\ config.getAdditionalAuthParams
    /\ calls[1].kind = "refresh" /\ UrlsOf(1) = {"https://bkper.app/auth/refresh"}
    /\ calls[2].kind = "login"
    /\ UrlsOf(2) =
          {"https://bkper.app/auth/login?returnUrl=http%3A%2F%2Flocalhost%3A3000%2Fapp&a b=x%26~"}

(* ----------------------------------------------------------------------- *)
\* The onTokenRefresh callback threw in the call.
ThrewOnTokenRefresh(c) ==
    \E i \in Positions(calls[c].trace, "onTokenRefresh") : calls[c].trace[i].threw

\* C19, the states: a call whose onTokenRefresh callback threw had received a
\* 200 with a usable token and has set the flag; its refresh() never
\* resolves, and once settled it has rejected with the thrown exception; an
\* init() around it has, when completed, passed that exception to onError
\* (when configured) and invoked neither onLoginSuccess nor onLoginRequired.
C19_ThrownNotificationRejects ==
    \A c \in RefreshCalls :
        ThrewOnTokenRefresh(c) =>
            /\ CarriesToken(calls[c].resp) /\ hasLoggedInBefore
            /\ calls[c].refreshEnd \in {"pending", "rejected"}
            /\ calls[c].error = ThrownBy("onTokenRefresh")
            /\ calls[c].refreshEnd = "pending" <=> calls[c].pc = "catching"
            /\ (calls[c].kind = "refresh" /\ calls[c].pc # "catching") =>
                  calls[c].pc = "rejected" /\ calls[c].thrown = ThrownBy("onTokenRefresh")
            /\ InitDone(c) =>
                  /\ LoginNotifications(c) = 0
                  /\ Count(calls[c].trace, "onError") = IF Configured("onError") THEN 1 ELSE 0
                  /\ \A i \in Positions(calls[c].trace, "onError") :
                        calls[c].trace[i].arg = ThrownBy("onTokenRefresh")

\* C19, the steps: at the moment such a refresh() rejects, the access token
\* is cleared to absent and the flag stays set.
C19_RejectionClearsToken ==
    \A c \in CallIds :
        (RefreshSettles(c) /\ ThrewOnTokenRefresh(c)) =>
            /\ calls'[c].refreshEnd = "rejected"
            /\ getAccessToken' = Absent
            /\ hasLoggedInBefore'

\* C19: if onTokenRefresh throws while a refresh() that received HTTP 200 is
\* being processed, refresh() rejects with the thrown exception and the
\* access token is cleared to absent although the server returned a valid
\* token, while the session hint flag stays set; through init() the exception
\* is then delivered to onError and neither onLoginSuccess nor
\* onLoginRequired is invoked.
C19_ThrowingTokenRefresh ==
    [](C19_ThrownNotificationRejects) /\ [][C19_RejectionClearsToken]_vars

\* In a fresh session an init() received the token "abc123", onTokenRefresh
\* threw, onError got the exception as the only later callback, the token is
\* gone and the flag is set.
C19_Witness ==
    /\ freshSession /\ hasLoggedInBefore /\ getAccessToken = Absent
    /\ \E c \in InitCalls :
          /\ calls[c].pc = "resolved" /\ lastSettled = c
          /\ calls[c].resp.body.accessToken = "abc123"
          /\ Len(calls[c].trace) >= 2
          /\ SubSeq(calls[c].trace, Len(calls[c].trace) - 1, Len(calls[c].trace)) =
                <<Ev("onTokenRefresh", "abc123", TRUE),
                  Ev("onError", ThrownBy("onTokenRefresh"), FALSE)>>

(* ----------------------------------------------------------------------- *)
\* A 200 whose body parsed to an object without a usable accessToken: the
\* property is missing or the empty string.
TokenlessBody(resp) == Parsed200(resp) /\ ~Truthy(resp.body.accessToken)

\* No response so far has carried a usable token.
NoTokenEverObtained == \A d \in RefreshCalls : ~CarriesToken(calls[d].resp)

\* C20, the states: a call that received a 200 with a parseable body whose
\* accessToken is missing or empty has resolved its refresh() without error,
\* the flag is set, onTokenRefresh was not invoked; as long as no response
\* has carried a token, getAccessToken() returns no usable token and an
\* init() around the call has, when completed, invoked onLoginRequired (when
\* configured) and not onLoginSuccess.
C20_ResolvedWithoutToken ==
    \A c \in RefreshCalls :
        TokenlessBody(calls[c].resp) =>
            /\ calls[c].refreshEnd = "resolved" /\ calls[c].error = NoError
            /\ calls[c].kind = "refresh" => calls[c].pc = "resolved"
            /\ hasLoggedInBefore
            /\ Count(calls[c].trace, "onTokenRefresh") = 0
            /\ NoTokenEverObtained => ~Truthy(getAccessToken)
            /\ (InitDone(c) /\ NoTokenEverObtained) =>
                  /\ Count(calls[c].trace, "onLoginSuccess") = 0
                  /\ Count(calls[c].trace, "onLoginRequired") =
                        IF Configured("onLoginRequired") THEN 1 ELSE 0

\* C20, the steps: processing such a response stores what the body carried
\* (undefined or the empty string), which is no usable token.
C20_StoresWhatBodyCarried ==
    \A c \in CallIds :
        (ResponseProcessed(c) /\ TokenlessBody(calls'[c].resp)) =>
            /\ getAccessToken' = calls'[c].resp.body.accessToken
            /\ ~Truthy(getAccessToken')

\* C20: a refresh() that receives HTTP 200 with a parseable body whose
\* accessToken is missing or empty resolves without error, sets the session
\* hint flag, leaves getAccessToken() without a usable token and does not
\* invoke onTokenRefresh; an init() around it, no response having carried a
\* token, invokes onLoginRequired: so hasLoggedInBefore() is true in a
\* session where no token was ever obtained.
C20_TokenlessSuccess ==
    [](C20_ResolvedWithoutToken) /\ [][C20_StoresWhatBodyCarried]_vars

\* In a fresh session the only call, an init(), received a 200 with an empty
\* accessToken: it resolved, asked for a login without notifying a token,
\* and the flag is set with no usable token in memory.
C20_Witness ==
    /\ freshSession /\ Len(calls) = 1 /\ Configured("onTokenRefresh")
    /\ calls[1].kind = "init" /\ calls[1].pc = "resolved"
    /\ Parsed200(calls[1].resp) /\ calls[1].resp.body.accessToken = ""
    /\ calls[1].trace[Len(calls[1].trace)] = Ev("onLoginRequired", Absent, FALSE)
    /\ hasLoggedInBefore /\ getAccessToken = ""

====
